---- MODULE Spec2Model ----
(***************************************************************************)
(* Model of urllib3's request layer: Request (cookie list and headers),    *)
(* RequestMethods (field encoding and the redirect step) and the cookie    *)
(* jar of contexthandlers.py.                                              *)
(***************************************************************************)
EXTENDS Integers, Sequences, FiniteSets, TLC

(***************************************************************************)
(* Bounds                                                                  *)
(***************************************************************************)
MaxBudget == 3

MaxCalls == 3

MaxArgs == 2

MaxClock == 2

MaxRequests == 2

\* Requests one BasicAuthHandler is applied to.
MaxHops == 2

(***************************************************************************)
(* Small input domains                                                     *)
(***************************************************************************)
Methods == {"GET", "POST"}

Hosts == {"x", "y"}

Paths == {"/a", "/b"}

Urls == [host : Hosts, path : Paths]

\* Redirect targets: absolute (host given) or relative (host = "").
Locations == {[host |-> "", path |-> "/b"], [host |-> "y", path |-> "/a"]}

\* A response that is not a redirect carries no target.
NoLocation == [host |-> "", path |-> ""]

RedirectStatuses == {301, 303}

Statuses == RedirectStatuses \cup {200}

NoResponse == 0

VARIABLES
    pc,          \* position of the request chain
    stack,       \* active invocations, innermost last
    retries,     \* the Retry object carried by the chain
    method,      \* method of the request in flight
    url,         \* url of the request in flight
    responses,   \* every response received, in order, with its release count
    dispatches,  \* every request handed to the transport, in order
    result,      \* index of the response returned to the caller, or NoResponse
    raised       \* exception that left the chain, or "none"

redirVars == <<pc, stack, retries, method, url, responses, dispatches, result, raised>>

VARIABLES
    req,         \* a Request object: its headers dict and its _cookies list
    calls,       \* number of add_cookies calls made on req
    lastArgs,    \* arguments of the latest add_cookies call
    repeated,    \* the latest call had the same arguments as the call before it
    firstSeen    \* attribute strings given to req so far, each once, in first-seen order

reqVars == <<req, calls, lastArgs, repeated, firstSeen>>

VARIABLES
    jar,         \* CookieJar._cookies: the set of stored cookies
    holds,       \* holds[t]: thread t holds CookieJar._cookies_lock
    tpc,         \* position of each thread in add_cookie_header / extract_cookies
    treq,        \* the Request each thread is working on
    tattrs,      \* attrs computed by each thread in add_cookie_header
    texc,        \* an exception is propagating out of the thread's try block
    policy_now,  \* CookieJar._policy._now
    clock        \* int(time.time())

jarVars == <<jar, holds, tpc, treq, tattrs, texc, policy_now, clock>>

VARIABLES
    self_headers,    \* RequestMethods.headers: the instance's default headers
    call,            \* arguments of the latest request() call
    requests,        \* number of request() calls made
    caller_headers,  \* the dict the caller passed as headers, after the call
    outcome          \* what the latest request() call did

encVars == <<self_headers, call, requests, caller_headers, outcome>>

\* The jar's policy and one _cookies_for_request call on it.
VARIABLES
    policy,         \* self._policy of the CookieJar
    returned,       \* the cookies the latest call selected
    preq            \* the request of the latest call

polVars == <<policy, returned, preq>>

\* One BasicAuthHandler and the requests of a chain it is applied to.
VARIABLES
    handler,        \* the BasicAuthHandler's fields
    areq,           \* the request apply_to was last called on
    before,         \* that request's headers before the call
    hops            \* number of requests the handler has been applied to

authVars == <<handler, areq, before, hops>>

vars == <<redirVars, reqVars, jarVars, encVars, polVars, authVars>>

(***************************************************************************)
(* Strings are sequences of characters                                     *)
(***************************************************************************)
Sep == <<";", " ">>

A1 == <<"a", "=", "1">>

B2 == <<"b", "=", "2">>

\* One argument that itself contains the separator.
A1B2 == A1 \o Sep \o B2

AttrStrings == {A1, B2, A1B2}

RECURSIVE join(_, _)
\* sep.join(list)
join(sep, list) ==
    IF list = <<>> THEN <<>>
    ELSE IF Len(list) = 1 THEN list[1]
    ELSE list[1] \o sep \o join(sep, Tail(list))

StartsWith(str, sep, i) ==
    /\ i + Len(sep) - 1 <= Len(str)
    /\ SubSeq(str, i, i + Len(sep) - 1) = sep

RECURSIVE split(_, _)
\* str.split(sep): cut at every occurrence of sep, scanning from the left;
\* the empty string gives one empty piece.
split(str, sep) ==
    LET hits == {i \in 1..Len(str) : StartsWith(str, sep, i)}
    IN IF hits = {} THEN <<str>>
       ELSE LET i == CHOOSE k \in hits : \A j \in hits : k <= j
            IN <<SubSeq(str, 1, i - 1)>> \o split(SubSeq(str, i + Len(sep), Len(str)), sep)

Contains(list, x) == \E i \in 1..Len(list) : list[i] = x

(***************************************************************************)
(* Request                                                                 *)
(***************************************************************************)
\* headers is a dict: a function whose domain is the set of keys present.
NoHeaders == [h \in {} |-> <<>>]

SetHeader(headers, h, v) ==
    [k \in DOMAIN headers \cup {h} |-> IF k = h THEN v ELSE headers[k]]

has_header(r, header) == header \in DOMAIN r.headers

get_header(r, header) == r.headers[header]

\* Request.__init__
Request(m, u, headers) ==
    LET self == [method |-> m, url |-> u, headers |-> headers]
    IN [method |-> m, url |-> u, headers |-> headers,
        _cookies |-> IF has_header(self, "Cookie")
                     THEN split(get_header(self, "Cookie"), Sep)
                     ELSE <<>>]

RECURSIVE append_new_NoCheck(_, _)
\* Variant: every argument is appended, present or not.
append_new_NoCheck(list, cookies) ==
    IF cookies = <<>> THEN list
    ELSE append_new_NoCheck(Append(list, cookies[1]), Tail(cookies))

RECURSIVE append_new(_, _)
\* for each in cookies: if each not in self._cookies: self._cookies.append(each)
append_new(list, cookies) ==
    IF cookies = <<>> THEN list
    ELSE append_new(IF Contains(list, cookies[1]) THEN list ELSE Append(list, cookies[1]),
                    Tail(cookies))

\* Request.add_cookies
add_cookies(r, cookies) ==
    LET cs == append_new(r._cookies, cookies)
    IN [r EXCEPT !._cookies = cs,
                 !.headers = SetHeader(r.headers, "Cookie", join(Sep, cs))]

\* Headers a Request is constructed with.
InitialHeaders ==
    { NoHeaders,
      SetHeader(NoHeaders, "Cookie", <<>>),
      SetHeader(NoHeaders, "Cookie", A1),
      SetHeader(NoHeaders, "Cookie", join(Sep, <<A1, B2>>)),
      SetHeader(NoHeaders, "Cookie", join(Sep, <<A1, A1>>)),
      SetHeader(NoHeaders, "cookie", B2) }

ArgLists == UNION {[1..n -> AttrStrings] : n \in 0..MaxArgs}

IdleRequest == Request("GET", [host |-> "x", path |-> "/a"], NoHeaders)

ReqIdle ==
    /\ req = IdleRequest
    /\ calls = 0
    /\ lastArgs = <<>>
    /\ repeated = FALSE
    /\ firstSeen = <<>>

RECURSIVE FirstSeen(_, _)
\* seen, followed by the strings of more not yet in it, each once.
FirstSeen(seen, more) ==
    IF more = <<>> THEN seen
    ELSE FirstSeen(IF \E i \in 1..Len(seen) : seen[i] = more[1] THEN seen
                   ELSE seen \o <<more[1]>>, Tail(more))

ReqInit ==
    /\ \E h \in InitialHeaders :
         /\ req = Request("GET", [host |-> "x", path |-> "/a"], h)
         /\ firstSeen = IF "Cookie" \in DOMAIN h
                         THEN FirstSeen(<<>>, split(h["Cookie"], Sep))
                         ELSE <<>>
    /\ calls = 0
    /\ lastArgs = <<>>
    /\ repeated = FALSE

\* One call req.add_cookies(*args).
Request_add_cookies(args) ==
    /\ calls < MaxCalls
    /\ req' = add_cookies(req, args)
    /\ calls' = calls + 1
    /\ lastArgs' = args
    /\ repeated' = (calls >= 1 /\ args = lastArgs)
    /\ firstSeen' = FirstSeen(firstSeen, args)

(***************************************************************************)
(* RequestMethods: encoding of fields                                      *)
(***************************************************************************)
_encode_url_methods == {"DELETE", "GET", "HEAD", "OPTIONS"}

\* Methods as callers write them.
RawMethods == {"get", "DELETE", "post", "PUT"}

\* method.upper()
upper(m) ==
    CASE m = "get" -> "GET"
      [] m = "post" -> "POST"
      [] OTHER -> m

None == [kind |-> "None"]

Str(data) == [kind |-> "str", data |-> data]

Bodies == {None, Str(<<>>), Str(<<"x">>)}

P1 == [k |-> <<"a">>, v |-> <<"1">>]

P2 == [k |-> <<"b">>, v |-> <<"2", " ", "&">>]

FieldLists == {<<>>, <<P1>>, <<P2, P1>>}

ParamLists == {<<>>, <<P2>>}

BaseUrl == <<"http://x/y">>

FormContentType == <<"application/x-www-form-urlencoded">>

MultipartContentType(boundary) == <<"multipart/form-data; boundary=">> \o boundary

Boundaries == {<<"b">>}

HeaderArgs == {None,
               [kind |-> "dict", d |-> NoHeaders],
               [kind |-> "dict", d |-> SetHeader(NoHeaders, "Content-Type", <<"text/plain">>)]}

\* quote_plus of one character
quote_char(c) ==
    CASE c = " " -> <<"+">>
      [] c = "&" -> <<"%26">>
      [] c = "=" -> <<"%3D">>
      [] OTHER -> <<c>>

RECURSIVE quote_plus(_)
quote_plus(str) ==
    IF str = <<>> THEN <<>> ELSE quote_char(Head(str)) \o quote_plus(Tail(str))

RECURSIVE urlencode(_)
\* urlencode(pairs): "k=v" of each pair, in input order, joined by "&"
urlencode(pairs) ==
    IF pairs = <<>> THEN <<>>
    ELSE quote_plus(pairs[1].k) \o <<"=">> \o quote_plus(pairs[1].v)
         \o (IF Len(pairs) > 1 THEN <<"&">> \o urlencode(Tail(pairs)) ELSE <<>>)

\* encode_multipart_formdata(iter_field_objects(fields, form_fields), boundary)
encode_multipart_formdata(fields, form_fields, boundary) ==
    [body |-> [kind |-> "multipart", parts |-> fields \o form_fields, boundary |-> boundary],
     content_type |-> MultipartContentType(boundary)]

\* Variant: the conflict test looks at the truth value of body.
encode_body_and_headers_Truthy(m, body, fields, form_fields, headers, encode_multipart, multipart_boundary) ==
    IF fields # <<>> \/ form_fields # <<>>
    THEN IF body # None /\ body # Str(<<>>)
         THEN [raised |-> "TypeError", headers |-> headers, body |-> body]
         ELSE IF encode_multipart /\ m \notin _encode_url_methods
         THEN LET mp == encode_multipart_formdata(fields, form_fields, multipart_boundary)
              IN [raised |-> "none",
                  headers |-> SetHeader(headers, "Content-Type", mp.content_type),
                  body |-> mp.body]
         ELSE IF m \notin _encode_url_methods
         THEN [raised |-> "none",
               headers |-> SetHeader(headers, "Content-Type", FormContentType),
               body |-> Str(urlencode(fields)
                            \o (IF fields # <<>> /\ form_fields # <<>> THEN <<"&">> ELSE <<>>)
                            \o urlencode(form_fields))]
         ELSE [raised |-> "none", headers |-> headers, body |-> body]
    ELSE [raised |-> "none", headers |-> headers, body |-> body]

\* Variant: the "&" between the two encoded parts is left out.
encode_body_and_headers_NoAmp(m, body, fields, form_fields, headers, encode_multipart, multipart_boundary) ==
    IF fields # <<>> \/ form_fields # <<>>
    THEN IF body # None
         THEN [raised |-> "TypeError", headers |-> headers, body |-> body]
         ELSE IF encode_multipart /\ m \notin _encode_url_methods
         THEN LET mp == encode_multipart_formdata(fields, form_fields, multipart_boundary)
              IN [raised |-> "none",
                  headers |-> SetHeader(headers, "Content-Type", mp.content_type),
                  body |-> mp.body]
         ELSE IF m \notin _encode_url_methods
         THEN [raised |-> "none",
               headers |-> SetHeader(headers, "Content-Type", FormContentType),
               body |-> Str(urlencode(fields) \o urlencode(form_fields))]
         ELSE [raised |-> "none", headers |-> headers, body |-> body]
    ELSE [raised |-> "none", headers |-> headers, body |-> body]

\* RequestMethods.encode_body_and_headers
encode_body_and_headers(m, body, fields, form_fields, headers, encode_multipart, multipart_boundary) ==
    IF fields # <<>> \/ form_fields # <<>>
    THEN IF body # None
         THEN [raised |-> "TypeError", headers |-> headers, body |-> body]
         ELSE IF encode_multipart /\ m \notin _encode_url_methods
         THEN LET mp == encode_multipart_formdata(fields, form_fields, multipart_boundary)
              IN [raised |-> "none",
                  headers |-> SetHeader(headers, "Content-Type", mp.content_type),
                  body |-> mp.body]
         ELSE IF m \notin _encode_url_methods
         THEN [raised |-> "none",
               headers |-> SetHeader(headers, "Content-Type", FormContentType),
               body |-> Str(urlencode(fields)
                            \o (IF fields # <<>> /\ form_fields # <<>> THEN <<"&">> ELSE <<>>)
                            \o urlencode(form_fields))]
         ELSE [raised |-> "none", headers |-> headers, body |-> body]
    ELSE [raised |-> "none", headers |-> headers, body |-> body]

\* Variant: url_params are written before the fields.
encode_url_ParamsFirst(m, u, fields, url_params) ==
    LET q1 == IF url_params # <<>>
              THEN urlencode(url_params)
                   \o (IF m \in _encode_url_methods /\ fields # <<>> THEN <<"&">> ELSE <<>>)
              ELSE <<>>
        querystring == q1 \o (IF m \in _encode_url_methods /\ fields # <<>>
                               THEN urlencode(fields) ELSE <<>>)
    IN IF querystring # <<>> THEN u \o <<"?">> \o querystring ELSE u

\* RequestMethods.encode_url
encode_url(m, u, fields, url_params) ==
    LET q1 == IF m \in _encode_url_methods /\ fields # <<>>
              THEN urlencode(fields)
                   \o (IF urlencode(fields) # <<>> /\ url_params # <<>> THEN <<"&">> ELSE <<>>)
              ELSE <<>>
        querystring == q1 \o (IF url_params # <<>> THEN urlencode(url_params) ELSE <<>>)
    IN IF querystring # <<>> THEN u \o <<"?">> \o querystring ELSE u

NoCall == [kind |-> "None"]

NoOutcome == [raised |-> "none", urlopen |-> FALSE]

EncIdle ==
    /\ self_headers = NoHeaders
    /\ call = NoCall
    /\ requests = 0
    /\ caller_headers = NoHeaders
    /\ outcome = NoOutcome

EncInit ==
    /\ self_headers \in {NoHeaders, SetHeader(NoHeaders, "User-Agent", <<"ua">>)}
    /\ call = NoCall
    /\ requests = 0
    /\ caller_headers = NoHeaders
    /\ outcome = NoOutcome

\* Variant: the defaults themselves are used, not a copy of them.
default_headers_NoCopy(own) == [d |-> own, copied |-> FALSE]

\* lines 160-161: if headers is None: headers = self.headers.copy()
default_headers(own) == [d |-> own, copied |-> TRUE]

\* RequestMethods.request
request(raw_method, u, fields, headers_arg, body, form_fields, url_params, encode_multipart, multipart_boundary) ==
    LET m == upper(raw_method)
        taken == IF headers_arg = None THEN default_headers(self_headers)
                 ELSE [d |-> headers_arg.d, copied |-> FALSE]
        headers == taken.d
        \* "headers or dict()" replaces an empty dict by a new one; a
        \* non-empty dict that is not a copy is updated in place
        in_place == ~taken.copied /\ headers # NoHeaders
        new_url == encode_url(m, u, fields, url_params)
        enc == encode_body_and_headers(m, body, fields, form_fields, headers,
                                       encode_multipart, multipart_boundary)
    IN /\ requests < MaxRequests
       /\ requests' = requests + 1
       /\ call' = [kind |-> "request", method |-> raw_method, url |-> u, fields |-> fields,
                   headers |-> headers_arg, body |-> body, form_fields |-> form_fields,
                   url_params |-> url_params, encode_multipart |-> encode_multipart,
                   multipart_boundary |-> multipart_boundary]
       /\ caller_headers' = IF headers_arg = None THEN NoHeaders
                            ELSE IF in_place THEN enc.headers ELSE headers_arg.d
       /\ outcome' = IF enc.raised # "none"
                     THEN [raised |-> enc.raised, urlopen |-> FALSE]
                     ELSE [raised |-> "none", urlopen |-> TRUE, method |-> m, url |-> new_url,
                           headers |-> enc.headers, body |-> enc.body]
       /\ self_headers' = IF headers_arg = None /\ in_place THEN enc.headers ELSE self_headers

(***************************************************************************)
(* CookieJar shared by threads                                             *)
(***************************************************************************)
Threads == {1, 2}

CookieNames == <<"a", "b">>

\* expires = Session: a cookie without expiry time.
Session == 0

Cookies == [name : {"a", "b"}, domain : Hosts, expires : {Session, 1}]

\* Cookie.is_expired(now)
is_expired(c, now) == c.expires # Session /\ c.expires <= now

host(r) == r.url.host

\* Flags of PythonCookiePolicy.strict_ns_domain.
DomainLiberal == {}

DomainStrict == {"DomainStrictNoDots", "DomainStrictNonDomain"}

NoKwargs == [k \in {} |-> {}]

\* PythonCookiePolicy.__init__(**kwargs): strict_ns_domain defaults to DomainLiberal.
PythonCookiePolicy(kwargs) ==
    [strict_ns_domain |-> IF "strict_ns_domain" \in DOMAIN kwargs
                          THEN kwargs["strict_ns_domain"] ELSE DomainLiberal]

\* DefaultCookiePolicy.__init__: kwargs.setdefault('strict_ns_domain', DomainStrict)
DefaultCookiePolicy(kwargs) ==
    PythonCookiePolicy(IF "strict_ns_domain" \in DOMAIN kwargs THEN kwargs
                       ELSE [k \in DOMAIN kwargs \cup {"strict_ns_domain"} |->
                                IF k = "strict_ns_domain" THEN DomainStrict ELSE kwargs[k]])

\* CookieJar.__init__: policy = policy or DefaultCookiePolicy()
CookieJar(p) == IF p = None THEN DefaultCookiePolicy(NoKwargs) ELSE p

\* A host below the domain "x".
SubHost == "s.x"

PolicyHosts == Hosts \cup {SubHost}

\* The labels of a host name, left to right.
Labels(h) == IF h = SubHost THEN <<"s", "x">> ELSE <<h>>

EndsWith(s, suffix) ==
    /\ Len(suffix) <= Len(s)
    /\ SubSeq(s, Len(s) - Len(suffix) + 1, Len(s)) = suffix

\* CookiePolicy.return_ok_domain for a cookie whose domain is a bare host
\* name (no Domain attribute was given): with DomainStrictNonDomain the
\* request host must equal it, otherwise "." + host must end with "." + domain.
return_ok_domain(c, r) ==
    IF "DomainStrictNonDomain" \in policy.strict_ns_domain /\ c.domain # host(r)
    THEN FALSE
    ELSE EndsWith(Labels(host(r)), Labels(c.domain))

\* CookiePolicy.return_ok: the domain test passes, not expired at _now.
return_ok(c, r, now) == return_ok_domain(c, r) /\ ~is_expired(c, now)

\* CookiePolicy.set_ok: a response may only set cookies for the request's host.
set_ok(c, r) == c.domain = host(r)

\* CookieJar._cookie_attrs of one cookie: "name=value".
cookie_attr(c) == <<c.name, "=", "1">>

RECURSIVE attrs_from(_, _, _, _)
\* self._cookie_attrs(self._cookies_for_request(request)), in jar order.
attrs_from(i, cookies, r, now) ==
    IF i > Len(CookieNames) THEN <<>>
    ELSE LET hit == {c \in cookies : c.name = CookieNames[i] /\ return_ok(c, r, now)}
         IN (IF hit = {} THEN <<>> ELSE <<cookie_attr(CHOOSE c \in hit : TRUE)>>)
            \o attrs_from(i + 1, cookies, r, now)

\* CookieJar.set_cookie: insert, or replace the cookie with the same key.
set_cookie(cookies, c) ==
    {d \in cookies : ~(d.name = c.name /\ d.domain = c.domain)} \cup {c}

JarIdle ==
    /\ jar = {}
    /\ holds = [t \in Threads |-> FALSE]
    /\ tpc = [t \in Threads |-> "idle"]
    /\ treq = [t \in Threads |-> IdleRequest]
    /\ tattrs = [t \in Threads |-> <<>>]
    /\ texc = [t \in Threads |-> FALSE]
    /\ policy_now = 0
    /\ clock = 0

JarInit == JarIdle

\* The policies a jar can be constructed with.
Policies ==
    { CookieJar(None),
      CookieJar(DefaultCookiePolicy([strict_ns_domain |-> DomainLiberal])),
      CookieJar(PythonCookiePolicy(NoKwargs)) }

PolicyCookies == [name : {"a", "b"}, domain : PolicyHosts, expires : {Session}]

PolIdle ==
    /\ policy = CookieJar(None)
    /\ returned = {}
    /\ preq = IdleRequest

\* parse_url gives no scheme, or no host.
NoScheme == ""

NoHost == ""

Schemes == {"http", "https"}

\* parse_url(domain) of the domains a handler is constructed for.
Domains == [scheme : Schemes \cup {NoScheme}, host : Hosts \cup {NoHost}]

\* BasicAuthHandler.__init__
BasicAuthHandler(domain, username, password) ==
    [host |-> domain.host, scheme |-> domain.scheme,
     username |-> username, password |-> password]

NoHandler == BasicAuthHandler([scheme |-> NoScheme, host |-> NoHost], <<>>, <<>>)

\* Request.type
type(r) == r.url.scheme

\* base64 of a string, kept symbolic.
b64encode(str) == <<"b64(">> \o str \o <<")">>

\* util.request.make_headers(basic_auth=...)
make_headers(basic_auth) ==
    SetHeader(NoHeaders, "authorization", <<"Basic", " ">> \o b64encode(basic_auth))

\* BasicAuthHandler.build_header
build_header(h) == make_headers(h.username \o <<":">> \o h.password)

\* Variant: the scheme the handler was constructed for is not looked at.
host_matches_IgnoreScheme(h, r) == h.host = host(r)

\* BasicAuthHandler.host_matches
host_matches(h, r) ==
    IF h.scheme # NoScheme /\ h.scheme # type(r) THEN FALSE ELSE h.host = host(r)

\* dict.update
update(headers, other) ==
    [k \in DOMAIN headers \cup DOMAIN other |->
        IF k \in DOMAIN other THEN other[k] ELSE headers[k]]

\* BasicAuthHandler.apply_to: the request afterwards
apply_to(h, r) ==
    IF host_matches(h, r) THEN [r EXCEPT !.headers = update(@, build_header(h))] ELSE r

AuthUrls == [scheme : Schemes, host : Hosts, path : {"/a"}]

\* The requests of a chain: any host and scheme, with or without an
\* authorization header of their own.
AuthRequests ==
    {Request("GET", u, hd) :
        u \in AuthUrls,
        hd \in {NoHeaders,
                 SetHeader(NoHeaders, "User-Agent", <<"ua">>),
                 SetHeader(NoHeaders, "authorization", <<"Bearer", " ", "t">>)}}

AuthIdle ==
    /\ handler = NoHandler
    /\ areq = IdleRequest
    /\ before = NoHeaders
    /\ hops = 0

AuthInit ==
    /\ handler \in {BasicAuthHandler(d, <<"u">>, <<"p">>) : d \in Domains}
    /\ areq = IdleRequest
    /\ before = NoHeaders
    /\ hops = 0

\* handler.apply_to(request) for the next request of the chain
BasicAuthHandler_apply_to(r) ==
    /\ hops < MaxHops
    /\ before' = r.headers
    /\ areq' = apply_to(handler, r)
    /\ hops' = hops + 1
    /\ UNCHANGED handler

PolInit ==
    /\ policy \in Policies
    /\ returned = {}
    /\ preq = IdleRequest

\* jar.set_cookie(cookie)
jar_set_cookie(c) ==
    /\ jar' = set_cookie(jar, c)
    /\ UNCHANGED <<holds, tpc, treq, tattrs, texc, policy_now, clock>>
    /\ UNCHANGED polVars

\* line 39: cookies = self._cookies_for_request(request)
_cookies_for_request(r) ==
    /\ returned' = {c \in jar : return_ok(c, r, clock)}
    /\ preq' = r
    /\ UNCHANGED policy
    /\ UNCHANGED jarVars

\* self._cookies_lock.acquire(): waits until no other thread holds the lock.
acquire(t) ==
    /\ \A u \in Threads \ {t} : ~holds[u]
    /\ holds' = [holds EXCEPT ![t] = TRUE]

\* self._cookies_lock.release()
release(t) ==
    /\ holds[t]
    /\ holds' = [holds EXCEPT ![t] = FALSE]

\* The call returns (or raises): the thread's locals are gone.
returns(t) ==
    /\ treq' = [treq EXCEPT ![t] = IdleRequest]
    /\ tattrs' = [tattrs EXCEPT ![t] = <<>>]
    /\ texc' = [texc EXCEPT ![t] = FALSE]

\* A cookie attribute string no cookie of the jar produces.
C3 == <<"c", "=", "3">>

\* The requests add_cookie_header is called with: without a Cookie header,
\* and with one that already holds "c=3; b=1".
AttachRequests ==
    {Request("GET", [host |-> h, path |-> "/a"], NoHeaders) : h \in Hosts}
    \cup {Request("GET", [host |-> "x", path |-> "/a"],
                  SetHeader(NoHeaders, "Cookie", join(Sep, <<C3, <<"b", "=", "1">>>>)))}

\* A thread calls add_cookie_header(request) and arrives at line 36. The
\* request it passes is bound when the lock is taken.
attach_call(t) ==
    /\ tpc[t] = "idle"
    /\ tpc' = [tpc EXCEPT ![t] = "a_wait"]
    /\ UNCHANGED <<jar, holds, treq, tattrs, texc, policy_now, clock>>

\* Variant: add_cookie_header starts without taking the lock.
attach_acquire_NoLock(t, r) ==
    /\ tpc[t] = "a_wait"
    /\ tpc' = [tpc EXCEPT ![t] = "a_select"]
    /\ treq' = [treq EXCEPT ![t] = r]
    /\ tattrs' = [tattrs EXCEPT ![t] = <<>>]
    /\ texc' = [texc EXCEPT ![t] = FALSE]
    /\ UNCHANGED <<jar, holds, policy_now, clock>>

\* add_cookie_header(request), line 36: self._cookies_lock.acquire()
attach_acquire(t, r) ==
    /\ tpc[t] = "a_wait"
    /\ acquire(t)
    /\ tpc' = [tpc EXCEPT ![t] = "a_select"]
    /\ treq' = [treq EXCEPT ![t] = r]
    /\ tattrs' = [tattrs EXCEPT ![t] = <<>>]
    /\ texc' = [texc EXCEPT ![t] = FALSE]
    /\ UNCHANGED <<jar, policy_now, clock>>

\* lines 38-40: snapshot the time, select the cookies, build attrs
attach_select(t) ==
    /\ tpc[t] = "a_select"
    /\ policy_now' = clock
    /\ tattrs' = [tattrs EXCEPT ![t] = attrs_from(1, jar, treq[t], clock)]
    /\ tpc' = [tpc EXCEPT ![t] = "a_add"]
    /\ UNCHANGED <<jar, holds, treq, texc, clock>>

\* Variant: add_cookies is called also when attrs is empty.
attach_add_NoGuard(t) ==
    /\ tpc[t] = "a_add"
    /\ treq' = [treq EXCEPT ![t] = add_cookies(@, tattrs[t])]
    /\ tpc' = [tpc EXCEPT ![t] = "a_release"]
    /\ UNCHANGED <<jar, holds, tattrs, texc, policy_now, clock>>

\* lines 43-44: if attrs: request.add_cookies(*attrs)
attach_add(t) ==
    /\ tpc[t] = "a_add"
    /\ treq' = [treq EXCEPT ![t] = IF tattrs[t] # <<>> THEN add_cookies(@, tattrs[t]) ELSE @]
    /\ tpc' = [tpc EXCEPT ![t] = "a_release"]
    /\ UNCHANGED <<jar, holds, tattrs, texc, policy_now, clock>>

\* lines 38-44 raise: control goes to the finally clause
attach_raise(t) ==
    /\ tpc[t] \in {"a_select", "a_add"}
    /\ texc' = [texc EXCEPT ![t] = TRUE]
    /\ tpc' = [tpc EXCEPT ![t] = "a_release"]
    /\ UNCHANGED <<jar, holds, treq, tattrs, policy_now, clock>>

\* Variant: without the finally clause an exception leaves add_cookie_header
\* with the lock still held.
attach_release_NoFinally(t) ==
    /\ tpc[t] = "a_release"
    /\ IF texc[t] THEN UNCHANGED holds ELSE release(t)
    /\ tpc' = [tpc EXCEPT ![t] = IF texc[t] THEN "idle" ELSE "a_sweep"]
    /\ IF texc[t] THEN returns(t) ELSE UNCHANGED <<treq, tattrs, texc>>
    /\ UNCHANGED <<jar, policy_now, clock>>

\* lines 45-46: finally: self._cookies_lock.release(); an exception then
\* leaves add_cookie_header, otherwise line 47 follows
attach_release(t) ==
    /\ tpc[t] = "a_release"
    /\ release(t)
    /\ tpc' = [tpc EXCEPT ![t] = IF texc[t] THEN "idle" ELSE "a_sweep"]
    /\ IF texc[t] THEN returns(t) ELSE UNCHANGED <<treq, tattrs, texc>>
    /\ UNCHANGED <<jar, policy_now, clock>>

\* Variant: the sweep runs without taking the lock.
sweep_acquire_NoLock(t) ==
    /\ tpc[t] = "a_sweep"
    /\ tpc' = [tpc EXCEPT ![t] = "s_clear"]
    /\ UNCHANGED <<jar, holds, treq, tattrs, texc, policy_now, clock>>

\* line 47: self.clear_expired_cookies(), which takes _cookies_lock itself
sweep_acquire(t) ==
    /\ tpc[t] = "a_sweep"
    /\ acquire(t)
    /\ tpc' = [tpc EXCEPT ![t] = "s_clear"]
    /\ UNCHANGED <<jar, treq, tattrs, texc, policy_now, clock>>

\* clear_expired_cookies: discard every cookie expired at time.time()
sweep_clear(t) ==
    /\ tpc[t] = "s_clear"
    /\ jar' = {c \in jar : ~is_expired(c, clock)}
    /\ tpc' = [tpc EXCEPT ![t] = "s_release"]
    /\ UNCHANGED <<holds, treq, tattrs, texc, policy_now, clock>>

\* clear_expired_cookies: release the lock and return from add_cookie_header
sweep_release(t) ==
    /\ tpc[t] = "s_release"
    /\ release(t)
    /\ tpc' = [tpc EXCEPT ![t] = "idle"]
    /\ returns(t)
    /\ UNCHANGED <<jar, policy_now, clock>>

\* A thread calls CookieHandler.extract_from(response, request) and arrives
\* at the lock of extract_cookies.
absorb_call(t) ==
    /\ tpc[t] = "idle"
    /\ tpc' = [tpc EXCEPT ![t] = "b_wait"]
    /\ UNCHANGED <<jar, holds, treq, tattrs, texc, policy_now, clock>>

\* CookieHandler.extract_from -> extract_cookies(response, request): take the lock
absorb_acquire(t, h) ==
    /\ tpc[t] = "b_wait"
    /\ acquire(t)
    /\ tpc' = [tpc EXCEPT ![t] = "b_insert"]
    /\ treq' = [treq EXCEPT ![t] = Request("GET", [host |-> h, path |-> "/a"], NoHeaders)]
    /\ tattrs' = [tattrs EXCEPT ![t] = <<>>]
    /\ texc' = [texc EXCEPT ![t] = FALSE]
    /\ UNCHANGED <<jar, policy_now, clock>>

\* extract_cookies: snapshot the time and store the cookie the policy accepts
absorb_insert(t, c) ==
    /\ tpc[t] = "b_insert"
    /\ policy_now' = clock
    /\ jar' = IF set_ok(c, treq[t]) THEN set_cookie(jar, c) ELSE jar
    /\ tpc' = [tpc EXCEPT ![t] = "b_release"]
    /\ UNCHANGED <<holds, treq, tattrs, texc, clock>>

\* extract_cookies: release the lock and return
absorb_release(t) ==
    /\ tpc[t] = "b_release"
    /\ release(t)
    /\ tpc' = [tpc EXCEPT ![t] = "idle"]
    /\ returns(t)
    /\ UNCHANGED <<jar, policy_now, clock>>

\* time.time() advances
Tick ==
    /\ clock < MaxClock
    /\ clock' = clock + 1
    /\ UNCHANGED <<jar, holds, tpc, treq, tattrs, texc, policy_now>>

(***************************************************************************)
(* Collaborators of redirect()                                             *)
(***************************************************************************)

\* urljoin(url, location): an absolute target replaces the url, a relative
\* one is resolved against the current url.
urljoin(base, loc) ==
    IF loc.host # "" THEN [host |-> loc.host, path |-> loc.path]
    ELSE [host |-> base.host, path |-> loc.path]

\* Retry.redirect_method: 303 forces GET, other statuses keep the method.
redirect_method(m, status) == IF status = 303 THEN "GET" ELSE m

\* Retry.is_exhausted after one more redirect.
increment_raises(r) == r.redirect + 1 > r.max_redirects

\* Retry.increment: the new Retry object.
increment(r) == [r EXCEPT !.redirect = r.redirect + 1]

Frames(kind) == Cardinality({i \in 1..Len(stack) : stack[i] = kind})

Dispatch(m, u, r) == [method |-> m, url |-> u, redirect |-> r.redirect]

(***************************************************************************)
(* Request chain                                                           *)
(***************************************************************************)
RedirInit ==
    /\ pc = "start"
    /\ stack = <<>>
    /\ retries \in [redirect : {0}, max_redirects : 0..MaxBudget,
                    raise_on_redirect : BOOLEAN]
    /\ method \in Methods
    /\ url \in Urls
    /\ responses = <<>>
    /\ dispatches = <<>>
    /\ result = NoResponse
    /\ raised = "none"

\* The caller's first urlopen().
urlopen_call ==
    /\ pc = "start"
    /\ stack' = <<"urlopen">>
    /\ dispatches' = <<Dispatch(method, url, retries)>>
    /\ pc' = "awaiting"
    /\ UNCHANGED <<retries, method, url, responses, result, raised>>

\* The transport answers the request in flight; urlopen() hands a redirect
\* response to redirect() and returns any other response to its caller.
urlopen_response(status, loc) ==
    /\ pc = "awaiting"
    /\ responses' = Append(responses, [status |-> status, location |-> loc, released |-> 0])
    /\ IF status \in RedirectStatuses
       THEN /\ stack' = Append(stack, "redirect")
            /\ pc' = "redirect"
            /\ UNCHANGED result
       ELSE /\ stack' = <<>>
            /\ pc' = "done"
            /\ result' = Len(responses) + 1
    /\ UNCHANGED <<retries, method, url, dispatches, raised>>

\* Variant: the hard failure forgets response.release_conn().
on_MaxRetryError_NoRelease(resp) ==
    IF retries.raise_on_redirect
    THEN /\ raised' = "MaxRetryError"
         /\ result' = NoResponse
         /\ UNCHANGED responses
    ELSE /\ result' = resp
         /\ UNCHANGED <<responses, raised>>

\* Variant: release_conn() is called before looking at raise_on_redirect.
on_MaxRetryError_ReleaseAlways(resp) ==
    /\ responses' = [responses EXCEPT ![resp].released = @ + 1]
    /\ IF retries.raise_on_redirect
       THEN /\ raised' = "MaxRetryError"
            /\ result' = NoResponse
       ELSE /\ result' = resp
            /\ UNCHANGED raised

\* except MaxRetryError: (request.py 239-245)
on_MaxRetryError(resp) ==
    IF retries.raise_on_redirect
    THEN /\ responses' = [responses EXCEPT ![resp].released = @ + 1]
         /\ raised' = "MaxRetryError"
         /\ result' = NoResponse
    ELSE /\ result' = resp
         /\ UNCHANGED <<responses, raised>>

\* Variant: the dispatch is handed the retry state from before the increment.
redirect_urlopen_PreIncrement(m, u, r) ==
    /\ method' = m
    /\ url' = u
    /\ retries' = r
    /\ dispatches' = Append(dispatches, Dispatch(m, u, retries))
    /\ stack' = Append(stack, "urlopen")
    /\ pc' = "awaiting"

\* return self.urlopen(method=method, url=redirect_location, retries=retries)
redirect_urlopen(m, u, r) ==
    /\ method' = m
    /\ url' = u
    /\ retries' = r
    /\ dispatches' = Append(dispatches, Dispatch(m, u, r))
    /\ stack' = Append(stack, "urlopen")
    /\ pc' = "awaiting"

\* Variant: the budget is tested on the count before the increment.
redirect_TestBeforeIncrement ==
    /\ pc = "redirect"
    /\ LET resp == Len(responses)
           redirect_location == urljoin(url, responses[resp].location)
           m == redirect_method(method, responses[resp].status)
       IN IF retries.redirect > retries.max_redirects
          THEN /\ on_MaxRetryError(resp)
               /\ stack' = <<>>
               /\ pc' = "done"
               /\ UNCHANGED <<retries, method, url, dispatches>>
          ELSE /\ redirect_urlopen(m, redirect_location, increment(retries))
               /\ UNCHANGED <<responses, result, raised>>

\* Variant: MaxRetryError is swallowed and the redirect is followed anyway.
redirect_SwallowError ==
    /\ pc = "redirect"
    /\ LET resp == Len(responses)
           redirect_location == urljoin(url, responses[resp].location)
           m == redirect_method(method, responses[resp].status)
       IN /\ redirect_urlopen(m, redirect_location, increment(retries))
          /\ UNCHANGED <<responses, result, raised>>

\* Variant: the next request is handed back to the caller's loop, the
\* redirect() invocation and the urlopen() that called it having returned.
redirect_ReturnToLoop ==
    /\ pc = "redirect"
    /\ LET resp == Len(responses)
           redirect_location == urljoin(url, responses[resp].location)
           m == redirect_method(method, responses[resp].status)
       IN IF increment_raises(retries)
          THEN /\ on_MaxRetryError(resp)
               /\ stack' = <<>>
               /\ pc' = "done"
               /\ UNCHANGED <<retries, method, url, dispatches>>
          ELSE /\ method' = m
               /\ url' = redirect_location
               /\ retries' = increment(retries)
               /\ dispatches' = Append(dispatches, Dispatch(m, redirect_location, increment(retries)))
               /\ stack' = <<"urlopen">>
               /\ pc' = "awaiting"
               /\ UNCHANGED <<responses, result, raised>>

\* RequestMethods.redirect
redirect ==
    /\ pc = "redirect"
    /\ LET resp == Len(responses)
           redirect_location == urljoin(url, responses[resp].location)
           m == redirect_method(method, responses[resp].status)
       IN IF increment_raises(retries)
          THEN /\ on_MaxRetryError(resp)
               /\ stack' = <<>>
               /\ pc' = "done"
               /\ UNCHANGED <<retries, method, url, dispatches>>
          ELSE /\ redirect_urlopen(m, redirect_location, increment(retries))
               /\ UNCHANGED <<responses, result, raised>>

RedirIdle ==
    /\ pc = "idle"
    /\ stack = <<>>
    /\ retries = [redirect |-> 0, max_redirects |-> 0, raise_on_redirect |-> TRUE]
    /\ method = "GET"
    /\ url = [host |-> "x", path |-> "/a"]
    /\ responses = <<>>
    /\ dispatches = <<>>
    /\ result = NoResponse
    /\ raised = "none"

\* One request chain through urlopen() and redirect().
Init == RedirInit /\ ReqIdle /\ JarIdle /\ EncIdle /\ PolIdle /\ AuthIdle

Next ==
    \/ urlopen_call /\ UNCHANGED <<reqVars, jarVars, encVars, polVars, authVars>>
    \/ \E status \in RedirectStatuses, loc \in Locations :
          urlopen_response(status, loc) /\ UNCHANGED <<reqVars, jarVars, encVars, polVars, authVars>>
    \/ urlopen_response(200, NoLocation) /\ UNCHANGED <<reqVars, jarVars, encVars, polVars, authVars>>
    \/ redirect /\ UNCHANGED <<reqVars, jarVars, encVars, polVars, authVars>>

Spec == Init /\ [][Next]_vars

\* One Request object and the add_cookies calls made on it.
CookieInit == ReqInit /\ RedirIdle /\ JarIdle /\ EncIdle /\ PolIdle /\ AuthIdle

CookieNext ==
    \E args \in ArgLists :
        Request_add_cookies(args) /\ UNCHANGED <<redirVars, jarVars, encVars, polVars, authVars>>

CookieSpec == CookieInit /\ [][CookieNext]_vars

\* The chain is sequential code that keeps running, and the transport answers
\* every request it is handed.
FairSpec == Spec /\ WF_vars(Next)

\* Threads calling add_cookie_header and extract_cookies on one CookieJar.
JarSpecInit == JarInit /\ RedirIdle /\ ReqIdle /\ EncIdle /\ PolIdle /\ AuthIdle

JarSpecNext ==
    \/ \E t \in Threads : attach_call(t) /\ UNCHANGED <<redirVars, reqVars, encVars, polVars, authVars>>
    \/ \E t \in Threads, r \in AttachRequests :
          attach_acquire(t, r) /\ UNCHANGED <<redirVars, reqVars, encVars, polVars, authVars>>
    \/ \E t \in Threads : attach_select(t) /\ UNCHANGED <<redirVars, reqVars, encVars, polVars, authVars>>
    \/ \E t \in Threads : attach_add(t) /\ UNCHANGED <<redirVars, reqVars, encVars, polVars, authVars>>
    \/ \E t \in Threads : attach_raise(t) /\ UNCHANGED <<redirVars, reqVars, encVars, polVars, authVars>>
    \/ \E t \in Threads : attach_release(t) /\ UNCHANGED <<redirVars, reqVars, encVars, polVars, authVars>>
    \/ \E t \in Threads : sweep_acquire(t) /\ UNCHANGED <<redirVars, reqVars, encVars, polVars, authVars>>
    \/ \E t \in Threads : sweep_clear(t) /\ UNCHANGED <<redirVars, reqVars, encVars, polVars, authVars>>
    \/ \E t \in Threads : sweep_release(t) /\ UNCHANGED <<redirVars, reqVars, encVars, polVars, authVars>>
    \/ \E t \in Threads : absorb_call(t) /\ UNCHANGED <<redirVars, reqVars, encVars, polVars, authVars>>
    \/ \E t \in Threads, h \in Hosts :
          absorb_acquire(t, h) /\ UNCHANGED <<redirVars, reqVars, encVars, polVars, authVars>>
    \/ \E t \in Threads, c \in Cookies :
          absorb_insert(t, c) /\ UNCHANGED <<redirVars, reqVars, encVars, polVars, authVars>>
    \/ \E t \in Threads : absorb_release(t) /\ UNCHANGED <<redirVars, reqVars, encVars, polVars, authVars>>
    \/ Tick /\ UNCHANGED <<redirVars, reqVars, encVars, polVars, authVars>>

JarSpec == JarSpecInit /\ [][JarSpecNext]_vars

\* The same threads on a jar used for one host, under fair scheduling: a
\* thread that can take a step inside an operation takes it, and a thread
\* blocked at the lock is not passed over forever. Calling an operation, an
\* exception and the clock are under no obligation.
LiveRequests == {Request("GET", [host |-> "x", path |-> "/a"], NoHeaders)}

LiveCookies == [name : {"a"}, domain : {"x"}, expires : {Session, 1}]

FairJarNext ==
    \/ \E t \in Threads : attach_call(t) /\ UNCHANGED <<redirVars, reqVars, encVars, polVars, authVars>>
    \/ \E t \in Threads, r \in LiveRequests :
          attach_acquire(t, r) /\ UNCHANGED <<redirVars, reqVars, encVars, polVars, authVars>>
    \/ \E t \in Threads : attach_select(t) /\ UNCHANGED <<redirVars, reqVars, encVars, polVars, authVars>>
    \/ \E t \in Threads : attach_add(t) /\ UNCHANGED <<redirVars, reqVars, encVars, polVars, authVars>>
    \/ \E t \in Threads : attach_raise(t) /\ UNCHANGED <<redirVars, reqVars, encVars, polVars, authVars>>
    \/ \E t \in Threads : attach_release(t) /\ UNCHANGED <<redirVars, reqVars, encVars, polVars, authVars>>
    \/ \E t \in Threads : sweep_acquire(t) /\ UNCHANGED <<redirVars, reqVars, encVars, polVars, authVars>>
    \/ \E t \in Threads : sweep_clear(t) /\ UNCHANGED <<redirVars, reqVars, encVars, polVars, authVars>>
    \/ \E t \in Threads : sweep_release(t) /\ UNCHANGED <<redirVars, reqVars, encVars, polVars, authVars>>
    \/ \E t \in Threads : absorb_call(t) /\ UNCHANGED <<redirVars, reqVars, encVars, polVars, authVars>>
    \/ \E t \in Threads, r \in LiveRequests :
          absorb_acquire(t, r.url.host) /\ UNCHANGED <<redirVars, reqVars, encVars, polVars, authVars>>
    \/ \E t \in Threads, c \in LiveCookies :
          absorb_insert(t, c) /\ UNCHANGED <<redirVars, reqVars, encVars, polVars, authVars>>
    \/ \E t \in Threads : absorb_release(t) /\ UNCHANGED <<redirVars, reqVars, encVars, polVars, authVars>>
    \/ Tick /\ UNCHANGED <<redirVars, reqVars, encVars, polVars, authVars>>

\* A step of thread t that needs no lock it does not hold.
ThreadRuns(t) ==
    /\ \/ attach_select(t)
       \/ attach_add(t)
       \/ attach_release(t)
       \/ sweep_clear(t)
       \/ sweep_release(t)
       \/ \E c \in LiveCookies : absorb_insert(t, c)
       \/ absorb_release(t)
    /\ UNCHANGED <<redirVars, reqVars, encVars, polVars, authVars>>

\* Thread t takes _cookies_lock.
ThreadAcquires(t) ==
    /\ \/ \E r \in LiveRequests : attach_acquire(t, r)
       \/ sweep_acquire(t)
       \/ \E r \in LiveRequests : absorb_acquire(t, r.url.host)
    /\ UNCHANGED <<redirVars, reqVars, encVars, polVars, authVars>>

FairJarSpec ==
    /\ JarSpecInit
    /\ [][FairJarNext]_vars
    /\ \A t \in Threads : WF_vars(ThreadRuns(t)) /\ SF_vars(ThreadAcquires(t))

\* One CookieJar, constructed with any policy, asked for the cookies of requests.
PolicyInit == PolInit /\ JarIdle /\ RedirIdle /\ ReqIdle /\ EncIdle /\ AuthIdle

PolicyNext ==
    \/ \E c \in PolicyCookies :
          jar_set_cookie(c) /\ UNCHANGED <<redirVars, reqVars, encVars, authVars>>
    \/ \E h \in PolicyHosts :
          _cookies_for_request(Request("GET", [host |-> h, path |-> "/a"], NoHeaders))
          /\ UNCHANGED <<redirVars, reqVars, encVars, authVars>>

PolicySpec == PolicyInit /\ [][PolicyNext]_vars

\* One BasicAuthHandler applied to the requests of a chain.
AuthSpecInit == AuthInit /\ RedirIdle /\ ReqIdle /\ JarIdle /\ EncIdle /\ PolIdle

AuthNext ==
    \E r \in AuthRequests :
        BasicAuthHandler_apply_to(r) /\ UNCHANGED <<redirVars, reqVars, jarVars, encVars, polVars>>

AuthSpec == AuthSpecInit /\ [][AuthNext]_vars

\* request() calls on one RequestMethods object.
EncodeInit == EncInit /\ RedirIdle /\ ReqIdle /\ JarIdle /\ PolIdle /\ AuthIdle

EncodeNext ==
    \E raw_method \in RawMethods, fields \in FieldLists, headers_arg \in HeaderArgs,
       body \in Bodies, form_fields \in ParamLists, url_params \in ParamLists,
       encode_multipart \in BOOLEAN, multipart_boundary \in Boundaries :
        /\ request(raw_method, BaseUrl, fields, headers_arg, body, form_fields, url_params,
                   encode_multipart, multipart_boundary)
        /\ UNCHANGED <<redirVars, reqVars, jarVars, polVars, authVars>>

EncodeSpec == EncodeInit /\ [][EncodeNext]_vars

(***************************************************************************)
(* Properties of the redirect step                                         *)
(***************************************************************************)
LastResponse == Len(responses)

\* The redirect response in hand takes the counter past max_redirects.
Exhausting == pc = "redirect" /\ retries.redirect + 1 > retries.max_redirects

OnlyLastReleasedOnce ==
    \A i \in 1..Len(responses) :
        responses[i].released = (IF i = LastResponse THEN 1 ELSE 0)

NoneReleased == \A i \in 1..Len(responses) : responses[i].released = 0

\* C1: when a redirect response exhausts the budget and raise_on_redirect is
\* true, the chain fails with MaxRetryError, release_conn() has been called
\* exactly once on the response handed to that redirect step (and on no other
\* response), and no request is dispatched from then on.
C1_HardExhaustionReleasesOnce ==
    [][/\ (Exhausting /\ retries.raise_on_redirect) =>
            /\ raised' = "MaxRetryError"
            /\ pc' = "done"
            /\ result' = NoResponse
            /\ Len(responses') = Len(responses)
            /\ responses'[LastResponse].released = responses[LastResponse].released + 1
            /\ OnlyLastReleasedOnce'
            /\ dispatches' = dispatches
       /\ (raised = "MaxRetryError") => (dispatches' = dispatches /\ responses' = responses)
      ]_vars

C1_Witness ==
    /\ raised = "MaxRetryError"
    /\ Len(responses) >= 2
    /\ responses[LastResponse].released = 1

\* C2: when a redirect response exhausts the budget and raise_on_redirect is
\* false, the redirect step raises nothing, returns the response it was given
\* unchanged, calls release_conn() on nothing and dispatches no request.
C2_SoftExhaustionReturnsResponse ==
    [][(Exhausting /\ ~retries.raise_on_redirect) =>
            /\ raised' = "none"
            /\ pc' = "done"
            /\ result' = LastResponse
            /\ responses' = responses
            /\ NoneReleased'
            /\ dispatches' = dispatches
      ]_vars

C2_Witness ==
    /\ pc = "done"
    /\ raised = "none"
    /\ ~retries.raise_on_redirect
    /\ result = LastResponse
    /\ Len(responses) >= 2
    /\ responses[result].status \in RedirectStatuses

\* C3: along one chain the attempted-redirect count never decreases from one
\* dispatched request to the next, no request is dispatched with a count
\* above max_redirects, and the count is at most max_redirects unless the
\* chain is terminal.
C3_CountMonotoneWithinBudget ==
    /\ \A i \in 1..(Len(dispatches) - 1) :
          dispatches[i].redirect <= dispatches[i + 1].redirect
    /\ \A i \in 1..Len(dispatches) : dispatches[i].redirect <= retries.max_redirects
    /\ (retries.redirect <= retries.max_redirects \/ pc = "done")

C3_Witness ==
    /\ pc = "redirect"
    /\ retries.max_redirects >= 2
    /\ retries.redirect = retries.max_redirects
    /\ Len(dispatches) = retries.max_redirects + 1

Terminal ==
    /\ pc = "done"
    /\ \/ raised = "none" /\ result = LastResponse /\ responses[result].status = 200
       \/ raised = "none" /\ result = LastResponse /\ ~retries.raise_on_redirect
            /\ responses[result].status \in RedirectStatuses
       \/ raised = "MaxRetryError" /\ result = NoResponse /\ retries.raise_on_redirect

\* C4: for every budget and every server behaviour the chain eventually
\* reaches a terminal outcome (a non-redirect response returned, the last
\* response returned on soft exhaustion, or MaxRetryError), having dispatched
\* at most max_redirects + 1 requests.
C4_ChainTerminates ==
    <>(Terminal /\ Len(dispatches) <= retries.max_redirects + 1)

C4_Witness ==
    /\ Terminal
    /\ retries.max_redirects >= 2
    /\ Len(dispatches) = retries.max_redirects + 1
    /\ \A i \in 1..Len(responses) : responses[i].status \in RedirectStatuses

Waiting(t) == tpc[t] \in {"a_wait", "b_wait"}

MidOperation(t) == tpc[t] # "idle" /\ ~Waiting(t)

\* Between an acquire of _cookies_lock and the release that follows it.
InLockedSection(t) ==
    tpc[t] \in {"a_select", "a_add", "a_release", "s_clear", "s_release",
                "b_insert", "b_release"}

\* About to read or change CookieJar._cookies.
AccessesCookies(t) == tpc[t] \in {"a_select", "s_clear", "b_insert"}

\* C6 (as stated): add_cookie_header, its expiry sweep included, and
\* extract_cookies never interleave: no thread takes a step of one of them
\* while another thread is between the first and the last step of its own.
C6_OperationsNeverInterleave ==
    \A t, u \in Threads : (t # u /\ MidOperation(t)) => ~MidOperation(u)

\* C6 (amended): the locked section of add_cookie_header (lines 36-46), the
\* expiry sweep and extract_cookies are each atomic with respect to the
\* others: while a thread is inside one of them no other thread takes a step,
\* except to call an operation and block at its acquire.
C6_LockedSectionsAtomic ==
    [][\A t \in Threads : InLockedSection(t) =>
          \A u \in Threads \ {t} :
              /\ tpc'[u] = tpc[u] \/ (tpc[u] = "idle" /\ tpc'[u] \in {"a_wait", "b_wait"})
              /\ treq'[u] = treq[u]
              /\ tattrs'[u] = tattrs[u]]_vars

C6_Witness ==
    \E t, u \in Threads :
        /\ t # u
        /\ tpc[t] = "b_insert"
        /\ tpc[u] = "a_sweep"
        /\ jar # {}

\* C7: a thread about to read or change the jar's cookie set (selecting the
\* cookies for a request, storing a cookie, discarding expired cookies) holds
\* the jar's lock, and at most one thread holds the lock.
C7_CookieSetAccessedUnderLock ==
    /\ \A t \in Threads : AccessesCookies(t) => holds[t]
    /\ Cardinality({t \in Threads : holds[t]}) <= 1

C7_Witness ==
    \E t, u \in Threads :
        /\ t # u
        /\ tpc[t] = "s_clear"
        /\ holds[t]
        /\ \E c \in jar : is_expired(c, clock)
        /\ tpc[u] = "a_sweep"

\* The attribute strings of a request's Cookie header, none without one.
HeaderCookies(r) ==
    IF "Cookie" \in DOMAIN r.headers THEN split(r.headers["Cookie"], Sep) ELSE <<>>

\* The cookies of the jar the policy accepts for thread t's request.
Accepted(t) ==
    {c \in jar : c.domain = treq[t].url.host
                  /\ (c.expires = Session \/ c.expires > policy_now)}

\* C16: add_cookie_header changes the request only by appending the attribute
\* strings of the accepted cookies. When no cookie is accepted the headers
\* are unchanged (no Cookie header is created or rewritten); when some are,
\* the attribute strings already in the Cookie header stay at the front in
\* their order, what follows are attribute strings of accepted cookies, every
\* accepted cookie's attribute string is present, and the other headers, the
\* method and the URL are unchanged. No other step of the operation changes
\* the request.
C16_AttachOnlyAppends ==
    [][\A t \in Threads :
         /\ (tpc[t] = "a_add" /\ tpc'[t] = "a_release" /\ ~texc'[t]) =>
               LET old == treq[t]
                   new == treq'[t]
                   had == HeaderCookies(old)
                   has == HeaderCookies(new)
               IN /\ new.method = old.method /\ new.url = old.url
                  /\ Accepted(t) = {} => new.headers = old.headers
                  /\ Accepted(t) # {} =>
                        /\ DOMAIN new.headers = DOMAIN old.headers \cup {"Cookie"}
                        /\ \A k \in DOMAIN old.headers \ {"Cookie"} :
                               new.headers[k] = old.headers[k]
                        /\ Len(had) <= Len(has)
                        /\ SubSeq(has, 1, Len(had)) = had
                        /\ \A i \in (Len(had) + 1)..Len(has) :
                               \E c \in Accepted(t) : has[i] = <<c.name, "=", "1">>
                        /\ \A c \in Accepted(t) :
                               \E i \in 1..Len(has) : has[i] = <<c.name, "=", "1">>
         /\ (tpc[t] \notin {"idle", "a_wait", "b_wait", "a_add"} /\ tpc'[t] # "idle") =>
               treq'[t] = treq[t]]_vars

\* A request that came with "c=3; b=1" has been given "a=1" for an accepted
\* cookie a, an accepted cookie b adding nothing new.
C16_Witness ==
    \E t \in Threads :
        /\ tpc[t] = "a_release"
        /\ ~texc[t]
        /\ tattrs[t] = <<<<"a", "=", "1">>, <<"b", "=", "1">>>>
        /\ HeaderCookies(treq[t]) = <<C3, <<"b", "=", "1">>, <<"a", "=", "1">>>>

C8_AddCookiesIdempotent ==
    [][(calls >= 1 /\ calls' = calls + 1 /\ lastArgs' = lastArgs) =>
          (req'.headers = req.headers /\ req'._cookies = req._cookies)]_vars

C8_Witness ==
    /\ repeated
    /\ Len(lastArgs) = 1
    /\ Len(req._cookies) >= 2
    /\ req.headers["Cookie"] = join(Sep, req._cookies)

NoDuplicates(list) ==
    \A i, j \in 1..Len(list) : list[i] = list[j] => i = j

\* C9: after any sequence of add_cookies calls on any Request, also one
\* constructed with a Cookie header, the Cookie header is the "; "-join of a
\* duplicate-free list of attribute strings in first-seen order.
C9_CookieHeaderDeduplicated ==
    calls >= 1 =>
        /\ NoDuplicates(req._cookies)
        /\ req._cookies = firstSeen
        /\ req.headers["Cookie"] = join(Sep, firstSeen)

\* C14: the policy never selects a cookie for a request when the cookie's
\* domain is a bare host name different from the request's host, with the
\* default policy and with a policy constructed with relaxed matching.
C14_BareDomainNeverLeaks ==
    \A c \in returned : c.domain = host(preq)

\* C15: a redirect handled within the budget issues exactly one new dispatch,
\* made with the incremented retry state, the method the retry table gives
\* for the current method and the status, and the current URL joined with
\* the redirect target (a relative target keeps the current host).
C15_RedirectDispatchesIncremented ==
    [][(pc = "redirect" /\ retries.redirect + 1 <= retries.max_redirects) =>
         LET resp == responses[Len(responses)]
             nextMethod == IF resp.status = 303 THEN "GET" ELSE method
             nextURL == IF resp.location.host = ""
                        THEN [host |-> url.host, path |-> resp.location.path]
                        ELSE [host |-> resp.location.host, path |-> resp.location.path]
         IN /\ Len(dispatches') = Len(dispatches) + 1
            /\ SubSeq(dispatches', 1, Len(dispatches)) = dispatches
            /\ dispatches'[Len(dispatches')] =
                  [method |-> nextMethod, url |-> nextURL, redirect |-> retries.redirect + 1]
            /\ retries'.redirect = retries.redirect + 1]_vars

C15_Witness ==
    /\ Len(dispatches) >= 2
    /\ dispatches[1].method = "POST"
    /\ dispatches[1].url.host = "x"
    /\ dispatches[2] = [method |-> "GET", url |-> [host |-> "x", path |-> "/b"], redirect |-> 1]
    /\ responses[1].status = 303
    /\ responses[1].location.host = ""

\* Header names that differ only in the case of their letters.
HeaderNames == {"Cookie", "cookie", "COOKIE"}

\* str.lower on the header names above.
lower(name) == IF name \in HeaderNames THEN "cookie" ELSE name

\* C13: has_header and get_header find a stored header under any casing of
\* its name, and a request constructed with a cookie header under any casing
\* starts with that header's attribute strings in its cookie list.
C13_HeaderLookupIgnoresCase ==
    \A h \in DOMAIN req.headers : \A h2 \in HeaderNames :
        lower(h2) = lower(h) =>
            /\ has_header(req, h2)
            /\ get_header(req, h2) = req.headers[h]
            /\ (calls = 0 /\ lower(h) = "cookie") =>
                   req._cookies = split(req.headers[h], Sep)

(***************************************************************************)
(* Properties of request() and the encoders                                *)
(***************************************************************************)
\* The latest call gave an explicit body together with fields or form_fields.
BodyAndFields ==
    /\ call # NoCall
    /\ call.body # None
    /\ (call.fields # <<>> \/ call.form_fields # <<>>)

\* C10: for every method outside {DELETE, GET, HEAD, OPTIONS}, a request()
\* call that gives both an explicit body and non-empty fields or form_fields
\* fails with TypeError before anything is dispatched: urlopen is not called
\* and no headers dict (the caller's, the instance's) is modified.
C10_BodyAndFieldsRaiseTypeError ==
    [][(BodyAndFields' /\ upper(call'.method) \notin {"DELETE", "GET", "HEAD", "OPTIONS"}) =>
          /\ outcome'.raised = "TypeError"
          /\ ~outcome'.urlopen
          /\ self_headers' = self_headers
          /\ call'.headers # None => caller_headers' = call'.headers.d
      ]_vars

C10_Witness ==
    /\ BodyAndFields
    /\ call.method = "post"
    /\ call.body = Str(<<>>)
    /\ call.fields = <<>>
    /\ call.headers # None /\ call.headers.d # NoHeaders
    /\ outcome.raised = "TypeError"

\* The headers the latest call started from.
InputHeaders == IF call.headers = None THEN self_headers ELSE call.headers.d

\* url followed by "?" and the encoded pairs, or url alone when there are none.
WithQuery(u, pairs) == IF pairs = <<>> THEN u ELSE u \o <<"?">> \o urlencode(pairs)

UrlMethodCall ==
    call # NoCall /\ upper(call.method) \in {"DELETE", "GET", "HEAD", "OPTIONS"}

BodyMethodCall ==
    call # NoCall /\ upper(call.method) \notin {"DELETE", "GET", "HEAD", "OPTIONS"}

\* C11: for a method in {DELETE, GET, HEAD, OPTIONS} the dispatched URL is
\* the input URL followed by "?" and the encoded pairs of fields, then those
\* of url_params, in input order and joined by "&" (the URL alone when both
\* are empty); the body and the headers are dispatched as they were given,
\* so no body and no Content-Type comes from the fields. A call without an
\* explicit body is dispatched.
C11_UrlMethodsEncodeQuery ==
    /\ (UrlMethodCall /\ call.body = None) => outcome.urlopen
    /\ (UrlMethodCall /\ outcome.urlopen) =>
          /\ outcome.url = WithQuery(call.url, call.fields \o call.url_params)
          /\ outcome.body = call.body
          /\ outcome.headers = InputHeaders

C11_Witness ==
    /\ call # NoCall
    /\ call.method = "get"
    /\ call.fields = <<P2, P1>>
    /\ call.url_params = <<P2>>
    /\ outcome.urlopen
    /\ outcome.body = None

\* C12: for a method outside {DELETE, GET, HEAD, OPTIONS} with
\* encode_multipart false, no explicit body and fields or form_fields
\* non-empty, the dispatched body is urlencode(fields) followed by
\* urlencode(form_fields), pairs in input order, with one "&" between them
\* exactly when both are non-empty; Content-Type is set to
\* application/x-www-form-urlencoded and nothing else in the headers changes;
\* the fields are not added to the URL.
C12_FormEncodedBody ==
    (/\ BodyMethodCall
     /\ ~call.encode_multipart
     /\ call.body = None
     /\ (call.fields # <<>> \/ call.form_fields # <<>>)) =>
        /\ outcome.urlopen
        /\ outcome.body = Str(urlencode(call.fields \o call.form_fields))
        /\ outcome.headers = SetHeader(InputHeaders, "Content-Type", FormContentType)
        /\ outcome.url = WithQuery(call.url, call.url_params)

C12_Witness ==
    /\ call # NoCall
    /\ call.method = "post"
    /\ ~call.encode_multipart
    /\ call.fields = <<P2, P1>>
    /\ call.form_fields = <<P2>>
    /\ call.headers # None /\ call.headers.d # NoHeaders
    /\ outcome.urlopen
    /\ outcome.headers["Content-Type"] = FormContentType

\* C18: the error for fields together with a body is raised only for
\* methods outside {DELETE, GET, HEAD, OPTIONS}: a call with one of those
\* four methods, non-empty fields and an explicit body does not fail, its
\* fields go into the query string and its body is dispatched unchanged.
C18_ConflictOnlyForBodyMethods ==
    /\ outcome.raised = "TypeError" => BodyMethodCall
    /\ (UrlMethodCall /\ call.fields # <<>> /\ call.body # None) =>
          /\ outcome.urlopen
          /\ outcome.url = WithQuery(call.url, call.fields \o call.url_params)
          /\ outcome.body = call.body

\* C20: no request() call changes self.headers, so after any sequence of
\* calls without an explicit headers argument the defaults are what they
\* were: a Content-Type set while encoding goes to the headers of that one
\* request and is never in the defaults, and a call without headers, fields
\* and form_fields dispatches exactly the defaults.
C20_DefaultHeadersUntouched ==
    /\ [][self_headers' = self_headers]_vars
    /\ []("Content-Type" \notin DOMAIN self_headers)
    /\ []((/\ call # NoCall
            /\ call.headers = None
            /\ call.fields = <<>>
            /\ call.form_fields = <<>>
            /\ outcome.urlopen) => outcome.headers = self_headers)

\* The second of two calls without a headers argument was dispatched with a
\* Content-Type from its fields beside the defaults, which lack it.
C20_Witness ==
    /\ requests = 2
    /\ call.headers = None
    /\ call.fields # <<>>
    /\ outcome.urlopen
    /\ self_headers # NoHeaders
    /\ "Content-Type" \in DOMAIN outcome.headers
    /\ \A k \in DOMAIN self_headers : outcome.headers[k] = self_headers[k]
    /\ "Content-Type" \notin DOMAIN self_headers

(***************************************************************************)
(* Properties of BasicAuthHandler                                          *)
(***************************************************************************)
\* The request apply_to was called on lies in the handler's scope.
InScope ==
    /\ handler.host = areq.url.host
    /\ handler.scheme = NoScheme \/ handler.scheme = areq.url.scheme

\* C19: apply_to leaves the headers of a request unchanged when the
\* request's host differs from the handler's, or when the handler has a
\* scheme and the request's scheme differs from it; only a request whose
\* host matches (and whose scheme matches when one is configured) gets the
\* handler's credentials header, its other headers staying as they were.
C19_CredentialsOnlyInScope ==
    hops > 0 =>
        /\ ~InScope => areq.headers = before
        /\ InScope =>
              /\ DOMAIN areq.headers = DOMAIN before \cup {"authorization"}
              /\ areq.headers["authorization"] =
                    <<"Basic", " ", "b64(">> \o handler.username \o <<":">>
                        \o handler.password \o <<")">>
              /\ \A k \in DOMAIN before \ {"authorization"} : areq.headers[k] = before[k]

\* A request to the handler's host under another scheme came back unchanged.
C19_Witness ==
    /\ hops > 0
    /\ handler.scheme = "https"
    /\ areq.url.scheme = "http"
    /\ handler.host = areq.url.host
    /\ areq.headers = before
    /\ "authorization" \notin DOMAIN areq.headers

====
